---- MODULE Spec2Model ----
(***************************************************************************)
(* A model of the series-processing repository:                            *)
(*   src/series_renamer.py   SeriesRenamer (pattern driven batch renamer)  *)
(*   src/rename_episodes.py  normalize / rename_episode                    *)
(*                                                                         *)
(* Python str values are sequences of one-character strings.  Optional[T]  *)
(* is a sequence of length at most one: None is << >>, a value v is <<v>>. *)
(* A call that may raise returns [tag |-> "ok", val |-> v] or              *)
(* [tag |-> "raise", exc |-> <exception class>].                           *)
(***************************************************************************)
EXTENDS Integers, Sequences, FiniteSets, TLC

VARIABLES
    fs,            \* the show tree on disk: entry name -> [kind, files]
    mode,          \* "dry" (run(dry_run=True)) or "real" (run(dry_run=False))
    pc,            \* position inside SeriesRenamer.run
    season_dirs,   \* run: the sorted list of season directories (line 246)
    idx,           \* run: index of the season directory being processed
    files_to_rename, \* rename_files_in_season: list of <<name, info>>
    resolution_cache, \* rename_files_in_season: Optional[str]
    fidx,          \* rename_files_in_season: index into files_to_rename
    plan,          \* what each run printed: mode -> sequence of report lines
    ops,           \* history: the rename calls issued so far, in order
    fs0,           \* history: the tree before the first run
    env,           \* the environment: probe outcome, extractor, denied dir
    fn,            \* pure-function harness: which function was applied
    arg,           \* pure-function harness: its argument
    ret            \* pure-function harness: its result

vars == <<fs, mode, pc, season_dirs, idx, files_to_rename, resolution_cache,
          fidx, plan, ops, fs0, env, fn, arg, ret>>

runVars == <<fs, mode, pc, season_dirs, idx, files_to_rename,
             resolution_cache, fidx, plan, ops, fs0, env>>

fnVars == <<fn, arg, ret>>

(***************************************************************************)
(* Python values                                                           *)
(***************************************************************************)
None == << >>

Some(v) == <<v>>

Ok(v) == [tag |-> "ok", val |-> v]

Raise(e) == [tag |-> "raise", exc |-> e]

\* Python truthiness of an Optional[str]: None and "" are falsy.
Truthy(o) == o # None /\ o[1] # << >>

Digits == <<"0", "1", "2", "3", "4", "5", "6", "7", "8", "9">>

IsDigit(c) == c \in {"0", "1", "2", "3", "4", "5", "6", "7", "8", "9"}

DigitVal(c) == (CHOOSE d \in 1..10 : Digits[d] = c) - 1

\* The characters of the model's names, in code point order (str comparison
\* is by code point; pathlib's PurePosixPath compares its case-sensitive parts).
CodeOrder ==
    <<" ", ".", "0", "1", "2", "3", "4", "5", "6", "7", "8", "9",
      "A", "B", "E", "K", "M", "N", "S", "V",
      "a", "b", "d", "e", "h", "i", "k", "m", "n", "o", "p", "s", "t", "v", "x">>

Ord(c) == CHOOSE k \in 1..Len(CodeOrder) : CodeOrder[k] = c

\* str.lower() on one character
LowerChar(c) ==
    CASE c = "A" -> "a" [] c = "B" -> "b" [] c = "E" -> "e" [] c = "K" -> "k"
      [] c = "M" -> "m" [] c = "N" -> "n" [] c = "S" -> "s" [] c = "V" -> "v"
      [] OTHER -> c

\* str.upper() on one character
UpperChar(c) ==
    CASE c = "a" -> "A" [] c = "b" -> "B" [] c = "e" -> "E" [] c = "k" -> "K"
      [] c = "m" -> "M" [] c = "n" -> "N" [] c = "s" -> "S" [] c = "v" -> "V"
      [] OTHER -> c

Lower(s) == [k \in 1..Len(s) |-> LowerChar(s[k])]

Upper(s) == [k \in 1..Len(s) |-> UpperChar(s[k])]

EndsWith(s, t) ==
    /\ Len(t) <= Len(s)
    /\ SubSeq(s, Len(s) - Len(t) + 1, Len(s)) = t

StartsWith(s, t) ==
    /\ Len(t) <= Len(s)
    /\ SubSeq(s, 1, Len(t)) = t

\* s < t for str
StrLess(s, t) ==
    \E k \in 1..(Len(t)) :
        /\ \A j \in 1..(k - 1) : j <= Len(s) /\ s[j] = t[j]
        /\ \/ k = Len(s) + 1
           \/ k <= Len(s) /\ Ord(s[k]) < Ord(t[k])

\* sorted(S) for a finite set of str
RECURSIVE SortedSeq(_)
SortedSeq(S) ==
    IF S = {} THEN << >>
    ELSE LET m == CHOOSE x \in S : \A y \in S \ {x} : StrLess(x, y)
         IN  <<m>> \o SortedSeq(S \ {m})

\* str.strip(" ") on both ends, as int() does before parsing
RECURSIVE StripSpaces(_)
StripSpaces(s) ==
    IF s = << >> THEN s
    ELSE IF s[1] = " " THEN StripSpaces(Tail(s))
    ELSE IF s[Len(s)] = " " THEN StripSpaces(SubSeq(s, 1, Len(s) - 1))
    ELSE s

RECURSIVE DigitsValue(_)
DigitsValue(s) ==
    IF s = << >> THEN 0
    ELSE 10 * DigitsValue(SubSeq(s, 1, Len(s) - 1)) + DigitVal(s[Len(s)])

\* int(s) for a str: surrounding whitespace is ignored, then decimal digits
\* are required (the model's alphabet has no sign and no underscore);
\* anything else raises ValueError.
IntOfStr(s) ==
    LET t == StripSpaces(s)
    IN  IF t # << >> /\ \A k \in 1..Len(t) : IsDigit(t[k])
        THEN Ok(DigitsValue(t))
        ELSE Raise("ValueError")

\* str(n) for n >= 0
RECURSIVE DecimalStr(_)
DecimalStr(n) ==
    IF n < 10 THEN <<Digits[n + 1]>>
    ELSE DecimalStr(n \div 10) \o <<Digits[(n % 10) + 1]>>

\* f"{n:02d}": zero padded to a minimum width of two, the sign counted
Format02dUnpadded(n) ==
    IF n < 0 THEN <<"-">> \o DecimalStr(0 - n) ELSE DecimalStr(n)

Format02d(n) ==
    IF n < 0 THEN <<"-">> \o DecimalStr(0 - n)
    ELSE IF n < 10 THEN <<"0">> \o DecimalStr(n)
    ELSE DecimalStr(n)

\* the end of the longest run of digits of s that starts at i (i - 1 if none)
RECURSIVE DigitRunEnd(_, _)
DigitRunEnd(s, i) ==
    IF i <= Len(s) /\ IsDigit(s[i]) THEN DigitRunEnd(s, i + 1) ELSE i - 1

(***************************************************************************)
(* re match objects.  The regular expressions of a SeriesConfig are        *)
(* configuration; a pattern applied to a name yields None or a match       *)
(* object [pos, named]: pos[k] is Optional[str] for group k, named maps a  *)
(* group name to its index.  A locator is [k |-> "idx", i |-> n] or        *)
(* [k |-> "name", n |-> s].                                                *)
(***************************************************************************)
Idx(i) == [k |-> "idx", i |-> i]

Named(n) == [k |-> "name", n |-> n]

\* match.group(loc): IndexError("no such group") for an unknown group
MatchGroup(m, loc) ==
    IF loc.k = "idx"
    THEN IF loc.i \in 1..Len(m.pos) THEN Ok(m.pos[loc.i]) ELSE Raise("IndexError")
    ELSE IF loc.n \in DOMAIN m.named THEN Ok(m.pos[m.named[loc.n]])
    ELSE Raise("IndexError")

\* int(x) for an Optional[str]: int(None) raises TypeError
IntOfOpt(o) == IF o = None THEN Raise("TypeError") ELSE IntOfStr(o[1])

(***************************************************************************)
(* SeriesRenamer.get_season_from_directory, src/series_renamer.py 68-89.   *)
(* ms is the sequence of pattern.search(directory.name) results, one per   *)
(* configured season_dir_pattern, in order.                                *)
(***************************************************************************)
SeasonGroupNames == <<"s_num", "season_num", "season">>

\* lines 78-80: the first preferred named group that is present and not None
NamedSeasonGroup(m) ==
    LET hits == {g \in 1..Len(SeasonGroupNames) :
                    /\ SeasonGroupNames[g] \in DOMAIN m.named
                    /\ m.pos[m.named[SeasonGroupNames[g]]] # None}
    IN  IF hits = {} THEN None
        ELSE LET g == CHOOSE x \in hits : \A y \in hits : x <= y
             IN  Some(m.pos[m.named[SeasonGroupNames[g]]][1])

RECURSIVE get_season_from_directory(_)
get_season_from_directory(ms) ==
    IF ms = << >> THEN Ok(None)
    ELSE LET m == Head(ms) IN
         IF m = None THEN get_season_from_directory(Tail(ms))
         ELSE LET mm == m[1]
                  named == NamedSeasonGroup(mm)
              IN  IF named # None
                  THEN \* line 80: int(...) is inside try/except (AttributeError, IndexError)
                       LET r == IntOfStr(named[1])
                       IN  IF r.tag = "ok" THEN Ok(Some(r.val)) ELSE r
                  ELSE \* lines 85-88: except (IndexError, TypeError)
                       LET g == MatchGroup(mm, Idx(1))
                           r == IF g.tag = "ok" THEN IntOfOpt(g.val) ELSE g
                       IN  IF r.tag = "ok" THEN Ok(Some(r.val))
                           ELSE IF r.exc \in {"IndexError", "TypeError"}
                                THEN get_season_from_directory(Tail(ms))
                                ELSE r

(***************************************************************************)
(* SeriesRenamer.parse_episode_info, src/series_renamer.py 92-148.         *)
(* eps is the configured episode_patterns list with, for each pattern, the *)
(* result m of ep_pattern.pattern.match(filename):                         *)
(*   [m, season_group, episodes_group, resolution_group]                   *)
(* where the optional locators are Optional values.                        *)
(***************************************************************************)
EpisodeInfo(season, episodes, resolution) ==
    [season |-> season, episodes |-> episodes, resolution |-> resolution]

\* [m.group(1) for m in re.finditer(r"[Ee](\d+)", s)] from position i
RECURSIVE EpisodeGroupsFrom(_, _)
EpisodeGroupsFrom(s, i) ==
    IF i > Len(s) THEN << >>
    ELSE IF s[i] \in {"E", "e"} /\ DigitRunEnd(s, i + 1) >= i + 1
         THEN LET q == DigitRunEnd(s, i + 1)
              IN  <<SubSeq(s, i + 1, q)>> \o EpisodeGroupsFrom(s, q + 1)
         ELSE EpisodeGroupsFrom(s, i + 1)

\* line 124: [int(m.group(1)) for m in re.finditer(r"[Ee](\d+)", s)]
EpisodeTokens(s) ==
    LET g == EpisodeGroupsFrom(s, 1) IN [k \in 1..Len(g) |-> DigitsValue(g[k])]

\* lines 100-107: the pattern's own season; Ok(Optional[int]) or a raise
OwnSeason(e) ==
    IF e.season_group = None THEN Ok(None)
    ELSE LET g == MatchGroup(e.m[1], e.season_group[1])
         IN  IF g.tag = "raise" THEN Ok(None)      \* except IndexError: pass
             ELSE IF ~Truthy(g.val) THEN Ok(None)  \* if season_str:
             ELSE LET r == IntOfStr(g.val[1])
                  IN  IF r.tag = "ok" THEN Ok(Some(r.val)) ELSE r

\* lines 121-127: Ok(list of int) or a raise
ParseEpisodes(episodes_str) ==
    IF episodes_str = None THEN Raise("AttributeError")  \* None.upper()
    ELSE LET s == episodes_str[1]
         IN  IF StartsWith(Upper(s), <<"E">>) \/ EpisodeTokens(s) # << >>
             THEN Ok(EpisodeTokens(s))
             ELSE LET r == IntOfStr(s)
                  IN  IF r.tag = "ok" THEN Ok(<<r.val>>) ELSE r

\* lines 132-140: the resolution of the pattern's own match
OwnResolution(e) ==
    IF e.resolution_group = None THEN None
    ELSE LET g == MatchGroup(e.m[1], e.resolution_group[1])
         IN  IF g.tag = "raise" THEN None
             ELSE IF ~Truthy(g.val) THEN None
             ELSE IF EndsWith(g.val[1], <<"p">>) THEN g.val
             ELSE Some(g.val[1] \o <<"p">>)

Continue == [tag |-> "continue"]

\* one iteration of the loop of lines 94-146
PatternResult(e, season_from_dir) ==
    IF e.m = None THEN Continue
    ELSE LET own == OwnSeason(e) IN
         IF own.tag = "raise" THEN own
         ELSE LET season == IF own.val # None THEN own.val ELSE season_from_dir IN
              IF season = None THEN Continue
              ELSE LET g == MatchGroup(e.m[1], e.episodes_group) IN
                   IF g.tag = "raise" THEN Continue
                   ELSE LET eps == ParseEpisodes(g.val) IN
                        IF eps.tag = "raise" THEN eps
                        ELSE IF eps.val = << >> THEN Continue
                        ELSE Ok(Some(EpisodeInfo(season[1], eps.val, OwnResolution(e))))

RECURSIVE parse_episode_info(_, _)
parse_episode_info(eps, season_from_dir) ==
    IF eps = << >> THEN Ok(None)
    ELSE LET r == PatternResult(Head(eps), season_from_dir)
         IN  IF r.tag = "continue"
             THEN parse_episode_info(Tail(eps), season_from_dir)
             ELSE r

(***************************************************************************)
(* SeriesRenamer.build_new_filename, src/series_renamer.py 150-154         *)
(***************************************************************************)
show_name == <<"A", ".", "B">>

show_name_spaced == <<"A", " ", "B">>

RECURSIVE EpisodesStr(_)
EpisodesStr(episodes) ==
    IF episodes = << >> THEN << >>
    ELSE <<"E">> \o Format02d(Head(episodes)) \o EpisodesStr(Tail(episodes))

\* f"{resolution}" for an Optional[str]: None is formatted as "None"
FormatOpt(o) == IF o = None THEN <<"N", "o", "n", "e">> ELSE o[1]

build_new_filename(season, episodes, resolution) ==
    show_name \o <<".", "S">> \o Format02d(season) \o EpisodesStr(episodes)
        \o <<".">> \o FormatOpt(resolution) \o <<".", "m", "k", "v">>

(***************************************************************************)
(* SeriesRenamer.get_resolution_from_mkvinfo, src/series_renamer.py        *)
(* 269-299.  probe is what subprocess.run did: it raised an exception     *)
(* (kind is its class), or it completed and its output has a               *)
(* "Pixel height:" line (height = <<h>>) or has none (height = None).      *)
(* The except clause of line 296 lists three classes; an exception of any  *)
(* other class (PermissionError when the tool is found but may not be      *)
(* executed) leaves the method.                                            *)
(***************************************************************************)
CaughtProbeErrors == {"TimeoutExpired", "SubprocessError", "FileNotFoundError"}

get_resolution_from_mkvinfo(probe) ==
    IF probe.kind \in CaughtProbeErrors THEN Ok(None)
    ELSE IF probe.kind # "completed" THEN Raise(probe.kind)
    ELSE IF probe.height = None THEN Ok(None)
    ELSE LET height == probe.height[1] IN
         IF height >= 2000 THEN Ok(Some(<<"2", "1", "6", "0", "p">>))
         ELSE IF height >= 1000 THEN Ok(Some(<<"1", "0", "8", "0", "p">>))
         ELSE IF height >= 680 THEN Ok(Some(<<"7", "2", "0", "p">>))
         ELSE IF height >= 450 THEN Ok(Some(<<"4", "8", "0", "p">>))
         ELSE Ok(Some(DecimalStr(height) \o <<"p">>))

(***************************************************************************)
(* Harness for the pure functions: an action applies one function to one   *)
(* input of its bounded input set and records the argument and the result. *)
(***************************************************************************)
MaxPatterns == 2

MaxEpisodes == 2

MaxSmall == 11

\* the sequences over S of length 1..n
SeqsUpTo(S, n) == UNION {[1..k -> S] : k \in 1..n}

\* captured texts: digits, padded digits, E-tokens, a bare "E", text, ""
Captures ==
    { <<"1">>, <<"0", "2">>, <<"E", "0", "1">>, <<"e", "1", "E", "2">>,
      <<"E">>, <<"x">>, << >>, <<"7", "2", "0">>, <<"7", "2", "0", "p">> }

OptCaptures == {None} \cup {Some(c) : c \in Captures}

NoNames == [x \in {} |-> 1]

\* what pattern.search(directory.name) can be for one season_dir_pattern
DirMatchSamples ==
    {None} \cup {Some(m) : m \in
        {[pos |-> << >>, named |-> NoNames]}
        \cup {[pos |-> <<c>>, named |-> NoNames] : c \in OptCaptures}
        \cup {[pos |-> <<c>>, named |-> [x \in {"season"} |-> 1]] : c \in OptCaptures}
        \cup {[pos |-> <<c>>, named |-> [x \in {"number"} |-> 1]] : c \in OptCaptures}
        \cup {[pos |-> <<Some(<<"7">>), c>>,
               named |-> [x \in {"number", "season"} |-> IF x = "number" THEN 1 ELSE 2]]
                 : c \in OptCaptures}
        \cup {[pos |-> <<c, Some(<<"5">>)>>,
               named |-> [x \in {"season", "s_num"} |-> IF x = "season" THEN 1 ELSE 2]]
                 : c \in OptCaptures}}

SeasonInputs == SeqsUpTo(DirMatchSamples, MaxPatterns)

\* what ep_pattern.pattern.match(filename) can be
EpisodeMatchObjects ==
    {[pos |-> <<a, b>>, named |-> NoNames] :
        a \in {None, Some(<<"1">>), Some(<<"x">>), Some(<< >>)},
        b \in {None, Some(<<"2">>), Some(<<"E", "0", "1">>),
               Some(<<"e", "1", "E", "2">>), Some(<<"E">>), Some(<<"x">>)}}
    \cup {[pos |-> <<Some(<<"3">>), Some(<<"E", "4", "e", "5">>), c>>,
           named |-> [x \in {"res"} |-> 3]] :
            c \in {None, Some(<< >>), Some(<<"7", "2", "0">>),
                   Some(<<"7", "2", "0", "p">>)}}

EpisodePattern(m, sg, eg, rg) ==
    [m |-> m, season_group |-> sg, episodes_group |-> eg, resolution_group |-> rg]

\* the patterns with the result of their match: every match object under the
\* dataclass's default locators plus a named resolution group, and a few
\* under a missing season locator and under locators that name no group
EpisodePatternSamples ==
    {EpisodePattern(None, Some(Idx(1)), Idx(2), None)}
    \cup {EpisodePattern(Some(m), Some(Idx(1)), Idx(2), Some(Named("res"))) :
            m \in EpisodeMatchObjects}
    \cup {EpisodePattern(Some(m), None, Idx(2), None) :
            m \in {x \in EpisodeMatchObjects : x.pos[1] = Some(<<"1">>)}}
    \cup {EpisodePattern(Some(m), sg, eg, Some(Idx(3))) :
            m \in {x \in EpisodeMatchObjects : Len(x.pos) = 3},
            sg \in {Some(Idx(4)), Some(Idx(1))}, eg \in {Idx(2), Idx(5)}}

ParseInputs ==
    {[eps |-> e, season_from_dir |-> d] :
        e \in SeqsUpTo(EpisodePatternSamples, MaxPatterns),
        d \in {None, Some(6)}}

Nums == (0..MaxSmall) \cup {24, 99, 100, 101, 999, 1000}

BuildInputs ==
    {[season |-> n, episodes |-> e, resolution |-> r] :
        n \in Nums, e \in SeqsUpTo(Nums, MaxEpisodes),
        r \in {Some(<<"7", "2", "0", "p">>), Some(<<"4", "8", "0", "p">>)}}

\* the run variables are not used by the function harness
RunIdle ==
    /\ fs = << >> /\ mode = "none" /\ pc = "idle" /\ season_dirs = << >>
    /\ idx = 0 /\ files_to_rename = << >> /\ resolution_cache = None
    /\ fidx = 0 /\ plan = << >> /\ ops = << >> /\ fs0 = << >> /\ env = << >>

FnInit == RunIdle /\ fn = "none" /\ arg = << >> /\ ret = << >>

CallSeason ==
    /\ fn = "none"
    /\ \E ms \in SeasonInputs :
        /\ fn' = "get_season_from_directory"
        /\ arg' = ms
        /\ ret' = get_season_from_directory(ms)
    /\ UNCHANGED runVars

CallParse ==
    /\ fn = "none"
    /\ \E i \in ParseInputs :
        /\ fn' = "parse_episode_info"
        /\ arg' = i
        /\ ret' = parse_episode_info(i.eps, i.season_from_dir)
    /\ UNCHANGED runVars

CallBuild ==
    /\ fn = "none"
    /\ \E i \in BuildInputs :
        /\ fn' = "build_new_filename"
        /\ arg' = i
        /\ ret' = build_new_filename(i.season, i.episodes, i.resolution)
    /\ UNCHANGED runVars

SpecSeason == FnInit /\ [][CallSeason]_vars

SpecParse == FnInit /\ [][CallParse]_vars

SpecBuild == FnInit /\ [][CallBuild]_vars

(***************************************************************************)
(* Claims about the pure functions of SeriesRenamer                        *)
(***************************************************************************)
\* the fields of s between occurrences of the character c
RECURSIVE SplitOn(_, _)
SplitOn(s, c) ==
    IF \A k \in 1..Len(s) : s[k] # c THEN <<s>>
    ELSE LET k == CHOOSE j \in 1..Len(s) :
                    s[j] = c /\ \A i \in 1..(j - 1) : s[i] # c
         IN  <<SubSeq(s, 1, k - 1)>> \o SplitOn(SubSeq(s, k + 1, Len(s)), c)

\* t is the decimal numeral of n, zero padded to two digits and no further
IsPadded(t, n) ==
    /\ t # << >>
    /\ \A k \in 1..Len(t) : IsDigit(t[k])
    /\ DigitsValue(t) = n
    /\ Len(t) >= 2
    /\ Len(t) > 2 => t[1] # "0"

\* C8: for a non-negative season and a non-empty episode list,
\* build_new_filename is show_name, ".S", the season padded to at least two
\* digits, then one "E" + padded episode per episode in the given order
\* (duplicates kept, nothing truncated), then "." resolution ".mkv"; season 1
\* with episodes [1, 2] at 720p gives "A.B.S01E01E02.720p.mkv".
C8_BuildNewFilename ==
    fn = "build_new_filename" =>
        LET pre == show_name \o <<".", "S">>
            suf == <<".">> \o arg.resolution[1] \o <<".", "m", "k", "v">>
        IN  /\ StartsWith(ret, pre)
            /\ EndsWith(ret, suf)
            /\ Len(ret) >= Len(pre) + Len(suf)
            /\ LET parts == SplitOn(SubSeq(ret, Len(pre) + 1, Len(ret) - Len(suf)), "E")
               IN  /\ Len(parts) = 1 + Len(arg.episodes)
                   /\ IsPadded(parts[1], arg.season)
                   /\ \A k \in 1..Len(arg.episodes) :
                        IsPadded(parts[k + 1], arg.episodes[k])
            /\ (arg.season = 1 /\ arg.episodes = <<1, 2>>
                    /\ arg.resolution = Some(<<"7", "2", "0", "p">>))
                => ret = <<"A", ".", "B", ".", "S", "0", "1", "E", "0", "1",
                           "E", "0", "2", ".", "7", "2", "0", "p", ".", "m", "k", "v">>

\* a wide season and a duplicated single-digit episode have been formatted
C8_Witness ==
    /\ fn = "build_new_filename"
    /\ arg.season = 100
    /\ arg.episodes = <<1, 1>>
    /\ ret = <<"A", ".", "B", ".", "S", "1", "0", "0", "E", "0", "1", "E", "0", "1",
               ".", "7", "2", "0", "p", ".", "m", "k", "v">>

\* C9: parse_episode_info returns "no match" or the EpisodeInfo of the first
\* pattern, in configured order, that matches and yields a season and at
\* least one episode number; it never raises, and a pattern that yields no
\* season or no episode number is passed over.
C9_FirstUsablePattern ==
    fn = "parse_episode_info" =>
        /\ ret.tag = "ok"
        /\ LET hits == {k \in 1..Len(arg.eps) :
                          PatternResult(arg.eps[k], arg.season_from_dir).tag = "ok"}
           IN  IF hits = {} THEN ret.val = None
               ELSE LET k == CHOOSE x \in hits : \A y \in hits : x <= y
                    IN  /\ ret = PatternResult(arg.eps[k], arg.season_from_dir)
                        /\ ret.val[1].season \in Nat
                        /\ ret.val[1].episodes # << >>

\* C10: get_season_from_directory returns an integer or "undetermined" and
\* never raises; a capture that is not an integer makes the pattern
\* undetermined and the next pattern is tried.
C10_SeasonNeverRaises ==
    fn = "get_season_from_directory" =>
        /\ ret.tag = "ok"
        /\ ret.val = None \/ ret.val[1] \in Nat

(***************************************************************************)
(* rename_episodes.normalize, src/rename_episodes.py 30-64.                *)
(* EPISODE_NAME_RE is matched as re does: the name group is greedy, so the *)
(* latest season marker that lets the rest match wins, the episodes group  *)
(* is greedy, and the text before the resolution is lazy, so the earliest  *)
(* resolution wins.  Names hold no line break.                             *)
(***************************************************************************)
CyrillicEr == "U+0440"

ResolutionSuffixes == {"p", CyrillicEr, "i"}

Extensions == {<<"m", "k", "v">>, <<"m", "p", "4">>, <<"w", "m", "v">>, <<"a", "v", "i">>}

\* the positions at which a match of ([Ee]\d+)+ that starts at a can end
RECURSIVE EpisodeEnds(_, _)
EpisodeEnds(s, a) ==
    IF a <= Len(s) /\ s[a] \in {"E", "e"} /\ DigitRunEnd(s, a + 1) >= a + 1
    THEN LET q == DigitRunEnd(s, a + 1)
         IN  ((a + 1)..q) \cup EpisodeEnds(s, q + 1)
    ELSE {}

\* \.(mkv|mp4|wmv|avi)$
HasExtension(s) ==
    /\ Len(s) >= 4
    /\ s[Len(s) - 3] = "."
    /\ SubSeq(s, Len(s) - 2, Len(s)) \in Extensions

\* where ([Ss](?P<season>\d+)) can start: n is the length of the name before it
SeasonStarts(s) ==
    {n \in 0..(Len(s) - 1) : s[n + 1] \in {"S", "s"} /\ DigitRunEnd(s, n + 2) >= n + 2}

\* where (?P<resolution>\d+([pрi])) can start with room left for .*?\.ext$
ResolutionStarts(s) ==
    {r \in 1..Len(s) :
        /\ IsDigit(s[r])
        /\ LET q == DigitRunEnd(s, r)
           IN  /\ q + 1 <= Len(s)
               /\ s[q + 1] \in ResolutionSuffixes
               /\ q + 1 < Len(s) - 3}

\* every way EPISODE_NAME_RE matches s: <<n, ee, r>> where the name is
\* s[1..n], the episodes group ends at ee and the resolution starts at r
NameMatches(s) ==
    IF ~HasExtension(s) THEN {}
    ELSE LET R == ResolutionStarts(s)
         IN  UNION {{c \in {n} \X EpisodeEnds(s, DigitRunEnd(s, n + 2) + 1) \X R :
                        c[3] > c[2]} : n \in SeasonStarts(s)}

\* EPISODE_NAME_RE.match(s): the match the backtracking search finds first
EPISODE_NAME_RE(s) ==
    LET M == NameMatches(s) IN
    IF M = {} THEN None
    ELSE LET c == CHOOSE x \in M : \A y \in M :
                    \/ x[1] > y[1]
                    \/ x[1] = y[1] /\ x[2] > y[2]
                    \/ x[1] = y[1] /\ x[2] = y[2] /\ x[3] <= y[3]
             se == DigitRunEnd(s, c[1] + 2)
         IN  Some([name |-> SubSeq(s, 1, c[1]),
                   season |-> SubSeq(s, c[1] + 2, se),
                   episodes |-> SubSeq(s, se + 1, c[2]),
                   resolution |-> SubSeq(s, c[3], DigitRunEnd(s, c[3]) + 1),
                   extension |-> SubSeq(s, Len(s) - 2, Len(s))])

NoStrip(s) == s

\* str.strip(". ")
RECURSIVE StripDotsSpaces(_)
StripDotsSpaces(s) ==
    IF s = << >> THEN s
    ELSE IF s[1] \in {".", " "} THEN StripDotsSpaces(Tail(s))
    ELSE IF s[Len(s)] \in {".", " "} THEN StripDotsSpaces(SubSeq(s, 1, Len(s) - 1))
    ELSE s

\* str.replace(a, b) for single characters
ReplaceChar(s, a, b) == [k \in 1..Len(s) |-> IF s[k] = a THEN b ELSE s[k]]

\* lines 42-43 and 49-50: a one-digit number gets a leading "0"
PadOne(d) == IF Len(d) = 1 THEN <<"0">> \o d ELSE d

\* lines 46-51
RECURSIVE EpisodeNumbers(_)
EpisodeNumbers(groups) ==
    IF groups = << >> THEN << >>
    ELSE <<"E">> \o PadOne(Head(groups)) \o EpisodeNumbers(Tail(groups))

normalize(filename) ==
    LET match == EPISODE_NAME_RE(filename) IN
    IF match = None THEN None
    ELSE LET m == match[1]
             shown == ReplaceChar(StripDotsSpaces(m.name), " ", ".")
             season_number == PadOne(m.season)
             episode_numbers == EpisodeNumbers(EpisodeGroupsFrom(m.episodes, 1))
             resolution == ReplaceChar(m.resolution, CyrillicEr, "p")
         IN  Some(shown \o <<".", "S">> \o season_number \o episode_numbers
                    \o <<".">> \o resolution \o <<".">> \o m.extension)

MaxNameLen == 1

\* the parameters of RenameEpisodeTest.test_normalization that match
TestParams ==
    << <<<<"S", "h", "a", "m", "a", "n", ".", "K", "i", "n", "g", ".",
          "S", "0", "1", "E", "2", "4", ".", "4", "8", "0", "p", ".",
          "a", "v", "i">>,
         <<"S", "h", "a", "m", "a", "n", ".", "K", "i", "n", "g", ".",
          "S", "0", "1", "E", "2", "4", ".", "4", "8", "0", "p", ".",
          "a", "v", "i">>>>,
       <<<<"M", "o", "n", "e", "y", ".", "H", "e", "i", "s", "t", ".",
          "S", "0", "2", "E", "0", "1", ".", "1", "0", "8", "0", "p",
          ".", "W", "E", "B", "-", "D", "L", ".", "x", "2", "6", "4",
          "-", "E", "D", "H", "D", "_", "K", "y", "l", "e", ".", "m",
          "k", "v">>,
         <<"M", "o", "n", "e", "y", ".", "H", "e", "i", "s", "t", ".",
          "S", "0", "2", "E", "0", "1", ".", "1", "0", "8", "0", "p",
          ".", "m", "k", "v">>>>,
       <<<<"T", "h", "e", ".", "G", "o", "o", "d", ".", "D", "o", "c",
          "t", "o", "r", ".", "S", "0", "6", "E", "1", "2", ".", "W",
          "E", "B", "D", "L", ".", "1", "0", "8", "0", "p", ".", "R",
          "G", "z", "s", "R", "u", "t", "r", "a", "c", "k", "e", "r",
          ".", "m", "k", "v">>,
         <<"T", "h", "e", ".", "G", "o", "o", "d", ".", "D", "o", "c",
          "t", "o", "r", ".", "S", "0", "6", "E", "1", "2", ".", "1",
          "0", "8", "0", "p", ".", "m", "k", "v">>>> >>

NameParts ==
    {<< >>} \cup SeqsUpTo({"a", " ", ".", "S"}, MaxNameLen)
        \cup {<<"a", " ", "b">>, <<"x", ".", "s", "1", "e", "1", ".">>, <<" ", "a", ".", " ">>}

SeasonParts == {<<"S", "1">>, <<"s", "0", "1">>, <<"S", "1", "2", "3">>}

EpisodeParts ==
    {<<"E", "1">>, <<"e", "0", "2">>, <<"E", "1", "e", "2">>,
     <<"E", "1", "0", "E", "2", "E", "3", "4", "5">>, <<"E">>}

MidParts == {<< >>, <<".">>, <<".", "x", "2", "6", "4", ".">>}

ResParts ==
    {<<"7", "2", "0", "p">>, <<"1", "0", CyrillicEr>>, <<"5", "i">>,
     <<"7", "2", "0">>, << >>}

PostParts == {<< >>, <<".", "a">>, <<" ", "4", "8", "p">>}

ExtParts == {<<".", "m", "k", "v">>, <<".", "a", "v", "i">>, <<".", "t", "x", "t">>}

NormalizeInputs ==
    {TestParams[k][1] : k \in 1..Len(TestParams)}
    \cup {n \o sp \o ep \o mi \o re \o po \o ex :
            n \in NameParts, sp \in SeasonParts, ep \in EpisodeParts,
            mi \in MidParts, re \in ResParts, po \in PostParts, ex \in ExtParts}

CallNormalize ==
    /\ fn = "none"
    /\ \E f \in NormalizeInputs :
        /\ fn' = "normalize"
        /\ arg' = f
        /\ ret' = normalize(f)
    /\ UNCHANGED runVars

SpecNormalize == FnInit /\ [][CallNormalize]_vars

\* the model of normalize gives what test_normalization expects
NormalizeAgreesWithTests ==
    \A k \in 1..Len(TestParams) :
        (fn = "normalize" /\ arg = TestParams[k][1]) => ret = Some(TestParams[k][2])

\* C6: normalize is idempotent: when normalize(f) is a name n, normalize(n)
\* is n again.
C6_NormalizeIdempotent ==
    (fn = "normalize" /\ ret # None) => normalize(ret[1]) = ret

\* a name that normalize changed (padding, tags stripped, Cyrillic er
\* replaced) has been normalized
C6_Witness ==
    /\ fn = "normalize"
    /\ ret # None
    /\ ret[1] # arg
    /\ \E k \in 1..Len(arg) : arg[k] = CyrillicEr

(***************************************************************************)
(* The show tree and the SeriesConfig of the run model.                    *)
(*   season_dir_patterns = [re.compile(r"[sS](?P<season>\d+)$"),           *)
(*                          re.compile(r"^A B (\d+)$")]                    *)
(*   episode_patterns = [                                                  *)
(*     EpisodePattern(re.compile(                                          *)
(*       r".*?[Ss](\d+)((?:[Ee]\d+)+)(?:\.(\d+p?))?.*\.mkv$"), 1, 2, 3),   *)
(*     EpisodePattern(re.compile(r"ep(\d+).*\.mkv$"), None, 1, None)]      *)
(* The tables below are what re returns for these patterns on the names of *)
(* the model.  The base directory exists; the platform is POSIX.           *)
(***************************************************************************)
MaxDirs == 2

MaxFiles == 2

DirS1 == <<"s", "1">>

DirS2 == <<"S", "2">>

DirAB1 == <<"A", " ", "B", " ", "1">>

DirEx == <<"e", "x">>

DirHidden == <<".", "s", "3">>

PlainS4 == <<"s", "4">>

PlainAB2 == <<"A", " ", "B", " ", "2">>

FileCanonical == <<"A", ".", "B", ".", "S", "0", "1", "E", "0", "1", ".", "7", "2", "0", "p", ".", "m", "k", "v">>

FileNoRes == <<"a", ".", "s", "1", "e", "1", ".", "m", "k", "v">>

FileBareRes == <<"s", "1", "e", "2", "e", "3", ".", "4", "8", "0", ".", "m", "k", "v">>

FileEp4 == <<"e", "p", "4", ".", "m", "k", "v">>

FileEp5Hd == <<"e", "p", "5", ".", "h", "d", ".", "m", "k", "v">>

FileUpperExt == <<"x", ".", "M", "K", "V">>

FileAvi == <<"b", " ", "S", "1", "E", "9", " ", "4", "8", "p", " ", "x", ".", "a", "v", "i">>

SeasonDirNames == {DirS1, DirS2, DirAB1, DirEx}

FileNames ==
    {FileCanonical, FileNoRes, FileBareRes, FileEp4, FileEp5Hd, FileUpperExt, FileAvi}

SeasonMatch(c) == Some([pos |-> <<Some(c)>>, named |-> [x \in {"season"} |-> 1]])

PositionalMatch(c) == Some([pos |-> <<Some(c)>>, named |-> NoNames])

\* [pattern.search(name) for pattern in config.season_dir_patterns]
season_dir_patterns(name) ==
    CASE name = DirS1 -> <<SeasonMatch(<<"1">>), None>>
      [] name = DirS2 -> <<SeasonMatch(<<"2">>), None>>
      [] name = DirHidden -> <<SeasonMatch(<<"3">>), None>>
      [] name = PlainS4 -> <<SeasonMatch(<<"4">>), None>>
      [] name = DirAB1 -> <<None, PositionalMatch(<<"1">>)>>
      [] name = PlainAB2 -> <<None, PositionalMatch(<<"2">>)>>
      [] name = DirEx -> <<None, None>>

Groups3(a, b, c) == Some([pos |-> <<a, b, c>>, named |-> NoNames])

\* the configured episode_patterns with ep_pattern.pattern.match(name)
episode_patterns(name) ==
    LET first == CASE name = FileCanonical ->
                        Groups3(Some(<<"0", "1">>), Some(<<"E", "0", "1">>),
                                Some(<<"7", "2", "0", "p">>))
                   [] name = FileNoRes ->
                        Groups3(Some(<<"1">>), Some(<<"e", "1">>), None)
                   [] name = FileBareRes ->
                        Groups3(Some(<<"1">>), Some(<<"e", "2", "e", "3">>),
                                Some(<<"4", "8", "0">>))
                   [] name \in {FileEp4, FileEp5Hd, FileUpperExt, FileAvi} -> None
        second == CASE name = FileEp4 -> PositionalMatch(<<"4">>)
                    [] name = FileEp5Hd -> PositionalMatch(<<"5">>)
                    [] name \in {FileCanonical, FileNoRes, FileBareRes,
                                 FileUpperExt, FileAvi} -> None
    IN  <<EpisodePattern(first, Some(Idx(1)), Idx(2), Some(Idx(3))),
          EpisodePattern(second, None, Idx(1), None)>>

\* config.resolution_extractor: absent ("none"), or a callback that knows the
\* ".hd" tag and returns "720p" ("label") or "720" ("digits") for it
ExtractorKinds == {"none", "label", "digits"}

resolution_extractor(kind, name) ==
    IF name # FileEp5Hd THEN None
    ELSE IF kind = "label" THEN Some(<<"7", "2", "0", "p">>)
    ELSE Some(<<"7", "2", "0">>)

\* what subprocess.run(["mkvinfo", ...], timeout=30) can do
ProbeOutcomes ==
    {[kind |-> k, height |-> None] :
        k \in CaughtProbeErrors \cup {"PermissionError", "completed"}}
    \cup {[kind |-> "completed", height |-> Some(h)] : h \in {300, 1068}}

DirEntry(files) == [kind |-> "dir", files |-> [n \in files |-> n]]

PlainEntry == [kind |-> "file", files |-> [n \in {} |-> n]]

FileSets == {S \in SUBSET FileNames : Cardinality(S) <= MaxFiles}

\* the directories of the base directory: up to MaxDirs directories with up
\* to MaxFiles files each (the non-season directory is empty)
DirTrees ==
    {u \in UNION {[D -> FileSets] :
              D \in {X \in SUBSET SeasonDirNames : Cardinality(X) \in 1..MaxDirs}} :
        DirEx \in DOMAIN u => u[DirEx] = {}}

\* the trees: the directories, a hidden directory and a plain file whose
\* name matches a season pattern; beside "S2" the plain file may have the
\* name that "S2" is to get
Trees ==
    {[n \in DOMAIN c[1] \cup {DirHidden, c[2]} |->
        IF n = c[2] THEN PlainEntry
        ELSE IF n = DirHidden THEN DirEntry({})
        ELSE DirEntry(c[1][n])] :
      c \in {x \in DirTrees \X {PlainS4, PlainAB2} :
                x[2] = PlainAB2 => DirS2 \in DOMAIN x[1]}}

(***************************************************************************)
(* pathlib.Path.rename (os.rename) on a POSIX filesystem                   *)
(***************************************************************************)
\* rename the file src of directory d to dst: an existing file is replaced
RenameFile(tree, d, src, dst) ==
    IF d \notin DOMAIN tree \/ src \notin DOMAIN tree[d].files
    THEN Raise("FileNotFoundError")
    ELSE IF src = dst THEN Ok(tree)
    ELSE LET old == tree[d].files
         IN  Ok([tree EXCEPT ![d].files =
                    [n \in (DOMAIN old \ {src}) \cup {dst} |->
                        IF n = dst THEN old[src] ELSE old[n]]])

\* rename the directory src of the base directory to dst: only an empty
\* directory is replaced
RenameDir(tree, src, dst) ==
    IF src \notin DOMAIN tree THEN Raise("FileNotFoundError")
    ELSE IF src = dst THEN Ok(tree)
    ELSE IF dst \in DOMAIN tree /\ tree[dst].kind = "file"
         THEN Raise("NotADirectoryError")
    ELSE IF dst \in DOMAIN tree /\ DOMAIN tree[dst].files # {}
         THEN Raise("OSError")
    ELSE Ok([n \in (DOMAIN tree \ {src}) \cup {dst} |->
                IF n = dst THEN tree[src] ELSE tree[n]])

(***************************************************************************)
(* SeriesRenamer.run and the methods it calls, src/series_renamer.py       *)
(* 156-266, and rename_episodes.rename_episodes, src/rename_episodes.py    *)
(* 10-28                                                                   *)
(***************************************************************************)
\* a printed line of the report
Line(t, d, a, b) == [t |-> t, d |-> d, a |-> a, b |-> b]

\* "if not dry_run:" (series_renamer.py 209, 228; rename_episodes.py 25)
AlwaysRename(m) == TRUE

ShouldRename(m) == m = "real"

\* line 186: "if not resolution_cache:" leaves the season
SeasonSkipped(cache) == ~Truthy(cache)

\* run renames directories in its second loop (lines 258-263)
InAnyPhase(p) == p \in {"files", "dirs"}

InDirPhase(p) == p = "dirs"

\* line 246: the directories of the base directory that are not hidden, sorted
ListSeasonDirs(tree) ==
    SortedSeq({n \in DOMAIN tree : tree[n].kind = "dir" /\ n[1] # "."})

\* lines 161-170: the loop over sorted(season_dir.iterdir())
RECURSIVE ScanFiles(_, _, _)
ScanFiles(d, names, season_num) ==
    IF names = << >> THEN [tag |-> "ok", list |-> << >>, lines |-> << >>]
    ELSE LET f == Head(names)
             rest == ScanFiles(d, Tail(names), season_num)
         IN  IF ~EndsWith(Lower(f), <<".", "m", "k", "v">>) THEN rest
             ELSE LET info == parse_episode_info(episode_patterns(f), Some(season_num))
                  IN  IF info.tag = "raise" THEN info
                      ELSE IF rest.tag = "raise" THEN rest
                      ELSE IF info.val = None
                           THEN [rest EXCEPT !.lines =
                                    <<Line("Skipping unmatched file", d, f, << >>)>> \o @]
                           ELSE [rest EXCEPT !.list =
                                    <<[name |-> f, info |-> info.val[1]]>> \o @]

\* lines 177-180: the season's resolution before the probe is asked
FirstResolution(first) ==
    IF Truthy(first.info.resolution) THEN first.info.resolution
    ELSE IF env.extractor # "none" THEN resolution_extractor(env.extractor, first.name)
    ELSE None

\* lines 194-198: the resolution of one file
FileResolution(item, cache) ==
    LET own == item.info.resolution
        ext == IF ~Truthy(own) /\ env.extractor # "none"
               THEN resolution_extractor(env.extractor, item.name) ELSE own
    IN  IF ~Truthy(ext) THEN cache ELSE ext

\* line 219
SeasonDirName(season_num) == show_name_spaced \o <<" ">> \o DecimalStr(season_num)

Locals0 ==
    /\ season_dirs' = << >>
    /\ idx' = 0
    /\ files_to_rename' = << >>
    /\ resolution_cache' = None
    /\ fidx' = 0

Say(lines) == plan' = [plan EXCEPT ![mode] = @ \o lines]

Crash ==
    /\ pc' = "crashed"
    /\ Locals0

RunInit ==
    /\ fs \in Trees
    /\ fs0 = fs
    /\ mode = "dry"
    /\ pc = "start"
    /\ season_dirs = << >>
    /\ idx = 0
    /\ files_to_rename = << >>
    /\ resolution_cache = None
    /\ fidx = 0
    /\ plan = [m \in {"dry", "real"} |-> << >>]
    /\ ops = << >>
    /\ env \in {e \in [prog : {"series_renamer", "rename_episodes"},
                       extractor : ExtractorKinds,
                       probe : {None},
                       target : {None}] :
                  /\ e.prog = "rename_episodes" => e.extractor = "none"
                  \* a callback is told from no callback only by the tagged name
                  /\ e.extractor # "none" =>
                        \E n \in DOMAIN fs : FileEp5Hd \in DOMAIN fs[n].files}
    /\ fn = "none" /\ arg = << >> /\ ret = << >>

\* run, lines 234-246
Run_Start ==
    /\ pc = "start"
    /\ env.prog = "series_renamer"
    /\ season_dirs' = ListSeasonDirs(fs)
    /\ idx' = 1
    /\ pc' = "files"
    /\ UNCHANGED <<fs, mode, files_to_rename, resolution_cache, fidx, plan, ops,
                   fs0, env>>
    /\ UNCHANGED fnVars

\* lines 173-184: the season's resolution_cache; probe is the outcome of the
\* mkvinfo call, made only when the first file and the callback give nothing
SeasonCache(first, probe) ==
    IF Truthy(FirstResolution(first)) THEN Ok(FirstResolution(first))
    ELSE get_resolution_from_mkvinfo(probe)

\* run, lines 249-256, with rename_files_in_season, lines 158-189
Season_Scan ==
    /\ pc = "files"
    /\ idx <= Len(season_dirs)
    /\ \E d \in {season_dirs[idx]} :
       \E sn \in {get_season_from_directory(season_dir_patterns(d))} :
         IF sn.tag = "raise" \/ d \notin DOMAIN fs
         THEN Crash /\ UNCHANGED <<plan, env>>
         ELSE IF sn.val = None
         THEN /\ Say(<<Line("Skipping non-season directory", d, << >>, << >>)>>)
              /\ idx' = idx + 1
              /\ UNCHANGED <<pc, season_dirs, files_to_rename, resolution_cache,
                             fidx, env>>
         ELSE \E scan \in {ScanFiles(d, SortedSeq(DOMAIN fs[d].files), sn.val[1])} :
              \E head \in {<<Line("Processing", d, << >>, << >>)>>} :
                IF scan.tag = "raise" THEN Crash /\ UNCHANGED <<plan, env>>
                ELSE IF scan.list = << >>
                THEN /\ Say(head \o scan.lines)
                     /\ idx' = idx + 1
                     /\ UNCHANGED <<pc, season_dirs, files_to_rename,
                                    resolution_cache, fidx, env>>
                ELSE \E first \in {scan.list[1]} :
                     \E asked \in {~Truthy(FirstResolution(first))} :
                     \E o \in IF ~asked THEN {None}
                              ELSE IF env.probe = None
                                   THEN {Some(x) : x \in ProbeOutcomes}
                                   ELSE {env.probe} :
                     \E cache \in {SeasonCache(first, IF asked THEN o[1] ELSE None)} :
                     \E said \in {head \o scan.lines \o
                                  IF asked
                                  THEN <<Line("Getting resolution from mkvinfo",
                                              d, << >>, << >>)>>
                                  ELSE << >>} :
                       /\ env' = IF asked THEN [env EXCEPT !.probe = o] ELSE env
                       /\ IF cache.tag = "raise"
                          THEN Say(said) /\ Crash
                          ELSE IF SeasonSkipped(cache.val)
                          THEN /\ Say(said \o <<Line("Skipping season", d,
                                                     first.name, << >>)>>)
                               /\ idx' = idx + 1
                               /\ UNCHANGED <<pc, season_dirs, files_to_rename,
                                              resolution_cache, fidx>>
                          ELSE /\ Say(said)
                               /\ files_to_rename' = scan.list
                               /\ resolution_cache' = cache.val
                               /\ fidx' = 1
                               /\ pc' = "rename"
                               /\ idx' = idx
                               /\ season_dirs' = season_dirs
    /\ UNCHANGED <<fs, mode, ops, fs0>>
    /\ UNCHANGED fnVars

\* the loop of lines 192-210 moves to the next file, or the method returns
\* and run moves to the next season directory
AdvanceFile ==
    IF fidx = Len(files_to_rename)
    THEN /\ fidx' = 0
         /\ files_to_rename' = << >>
         /\ resolution_cache' = None
         /\ pc' = "files"
         /\ idx' = idx + 1
         /\ season_dirs' = season_dirs
    ELSE /\ fidx' = fidx + 1
         /\ UNCHANGED <<files_to_rename, resolution_cache, pc, idx, season_dirs>>

\* the record of one rename call and of how it ended
Op(kind, d, src, dst, r) ==
    [kind |-> kind, d |-> d, src |-> src, dst |-> dst,
     result |-> IF r.tag = "ok" THEN "ok" ELSE r.exc]

\* rename_files_in_season, lines 192-210: one file; denied says whether the
\* filesystem refuses the rename (PermissionError)
FileStep(denied) ==
    /\ pc = "rename"
    /\ \E d \in {season_dirs[idx]} :
       \E item \in {files_to_rename[fidx]} :
       \E new_name \in {build_new_filename(item.info.season, item.info.episodes,
                                           FileResolution(item, resolution_cache))} :
         IF item.name = new_name
         THEN /\ ~denied
              /\ Say(<<Line("Already correct", d, item.name, << >>)>>)
              /\ AdvanceFile
              /\ UNCHANGED <<fs, ops>>
         ELSE /\ Say(<<Line("->", d, item.name, new_name)>>)
              /\ IF ~ShouldRename(mode)
                 THEN ~denied /\ AdvanceFile /\ UNCHANGED <<fs, ops>>
                 ELSE \E r \in {IF denied THEN Raise("PermissionError")
                                ELSE RenameFile(fs, d, item.name, new_name)} :
                        /\ ops' = Append(ops, Op("file", d, item.name, new_name, r))
                        /\ IF r.tag = "ok"
                           THEN fs' = r.val /\ AdvanceFile
                           ELSE Crash /\ UNCHANGED fs
    /\ UNCHANGED <<mode, fs0, env>>
    /\ UNCHANGED fnVars

Rename_File == \E denied \in BOOLEAN : FileStep(denied)

\* run, line 259: the first loop is over
Files_Done ==
    /\ pc = "files"
    /\ idx > Len(season_dirs)
    /\ pc' = "dirs"
    /\ idx' = 1
    /\ Say(<<Line("--- Renaming directories ---", << >>, << >>, << >>)>>)
    /\ UNCHANGED <<fs, mode, season_dirs, files_to_rename, resolution_cache, fidx,
                   ops, fs0, env>>
    /\ UNCHANGED fnVars

\* the loop of lines 260-263 moves to the next directory
AdvanceDir ==
    /\ idx' = idx + 1
    /\ UNCHANGED <<pc, season_dirs, files_to_rename, resolution_cache, fidx>>

\* run, lines 260-263, with rename_season_directory, lines 212-232: one
\* directory; denied says whether the filesystem refuses the rename
DirStep(denied) ==
    /\ InDirPhase(pc)
    /\ idx <= Len(season_dirs)
    /\ \E d \in {season_dirs[idx]} :
       \E sn \in {get_season_from_directory(season_dir_patterns(d))} :
         IF sn.tag = "raise" THEN ~denied /\ Crash /\ UNCHANGED <<fs, plan, ops>>
         ELSE IF sn.val = None
         THEN ~denied /\ AdvanceDir /\ UNCHANGED <<fs, plan, ops>>
         ELSE \E new_name \in {SeasonDirName(sn.val[1])} :
                IF d = new_name
                THEN /\ ~denied
                     /\ Say(<<Line("Directory already correct", d, << >>, << >>)>>)
                     /\ AdvanceDir
                     /\ UNCHANGED <<fs, ops>>
                ELSE /\ Say(<<Line("Directory:", d, << >>, new_name)>>)
                     /\ IF ~ShouldRename(mode)
                        THEN ~denied /\ AdvanceDir /\ UNCHANGED <<fs, ops>>
                        ELSE \E r \in {IF denied THEN Raise("PermissionError")
                                       ELSE RenameDir(fs, d, new_name)} :
                               /\ ops' = Append(ops, Op("dir", << >>, d, new_name, r))
                               /\ IF r.tag = "ok"
                                  THEN fs' = r.val /\ AdvanceDir
                                  ELSE Crash /\ UNCHANGED fs
    /\ UNCHANGED <<mode, fs0, env>>
    /\ UNCHANGED fnVars

Rename_Dir == \E denied \in BOOLEAN : DirStep(denied)

\* run, lines 265-266: the second loop is over and run returns
Run_Done ==
    /\ pc = "dirs"
    /\ idx > Len(season_dirs)
    /\ pc' = "done"
    /\ Locals0
    /\ UNCHANGED <<fs, mode, plan, ops, fs0, env>>
    /\ UNCHANGED fnVars

\* rename_episodes.rename_episodes, lines 10-15: the sorted listing of the
\* directory given on the command line
Episodes_Start ==
    /\ pc = "start"
    /\ env.prog = "rename_episodes"
    /\ \E t \in IF env.target = None
                THEN {Some(n) : n \in {x \in DOMAIN fs : fs[x].kind = "dir"}}
                ELSE {env.target} :
        /\ env' = [env EXCEPT !.target = t]
        /\ season_dirs' = <<t[1]>>
        /\ files_to_rename' = SortedSeq(DOMAIN fs[t[1]].files)
    /\ idx' = 1
    /\ fidx' = 1
    /\ pc' = "episodes"
    /\ UNCHANGED <<fs, mode, resolution_cache, plan, ops, fs0>>
    /\ UNCHANGED fnVars

\* the loop of rename_episodes.py 15-17 moves to the next file
AdvanceEpisode ==
    /\ fidx' = fidx + 1
    /\ UNCHANGED <<pc, season_dirs, idx, files_to_rename, resolution_cache>>

\* rename_episodes.rename_episode, lines 20-28: one file
EpisodeStep(denied) ==
    /\ pc = "episodes"
    /\ fidx <= Len(files_to_rename)
    /\ \E d \in {season_dirs[1]} :
       \E name \in {files_to_rename[fidx]} :
       \E new_name \in {normalize(name)} :
         IF new_name = None
         THEN /\ ~denied
              /\ Say(<<Line("Skipping", d, name, << >>)>>)
              /\ AdvanceEpisode
              /\ UNCHANGED <<fs, ops>>
         ELSE /\ Say(<<Line("->", d, name, new_name[1])>>)
              /\ IF ~ShouldRename(mode)
                 THEN ~denied /\ AdvanceEpisode /\ UNCHANGED <<fs, ops>>
                 ELSE \E r \in {IF denied THEN Raise("PermissionError")
                                ELSE RenameFile(fs, d, name, new_name[1])} :
                        /\ ops' = Append(ops, Op("file", d, name, new_name[1], r))
                        /\ IF r.tag = "ok"
                           THEN fs' = r.val /\ AdvanceEpisode
                           ELSE Crash /\ UNCHANGED fs
    /\ UNCHANGED <<mode, fs0, env>>
    /\ UNCHANGED fnVars

Rename_Episode == \E denied \in BOOLEAN : EpisodeStep(denied)

Episodes_Done ==
    /\ pc = "episodes"
    /\ fidx > Len(files_to_rename)
    /\ pc' = "done"
    /\ Locals0
    /\ UNCHANGED <<fs, mode, plan, ops, fs0, env>>
    /\ UNCHANGED fnVars

\* the operator runs the tool with --dry-run first and then for real
Real_Run ==
    /\ mode = "dry"
    /\ pc = "done"
    /\ mode' = "real"
    /\ pc' = "start"
    /\ UNCHANGED <<fs, season_dirs, idx, files_to_rename, resolution_cache, fidx,
                   plan, ops, fs0, env>>
    /\ UNCHANGED fnVars

Next ==
    \/ Run_Start
    \/ Season_Scan
    \/ Rename_File
    \/ Files_Done
    \/ Rename_Dir
    \/ Run_Done
    \/ Episodes_Start
    \/ Rename_Episode
    \/ Episodes_Done
    \/ Real_Run

Spec == RunInit /\ [][Next]_vars

(***************************************************************************)
(* Claims about the runs                                                   *)
(***************************************************************************)
IsSeriesRun == env.prog = "series_renamer"

\* C1: with dry_run=True nothing on disk changes: while the dry run of
\* SeriesRenamer.run or of rename_episodes goes on, and after it, the tree
\* is the tree it started from and no rename call has been issued.
C1_DryRunMutatesNothing == mode = "dry" => (fs = fs0 /\ ops = << >>)

\* a dry run of SeriesRenamer.run has returned after reporting a file rename
\* and a directory rename
C1_Witness ==
    /\ IsSeriesRun
    /\ mode = "dry"
    /\ pc = "done"
    /\ \E k \in 1..Len(plan["dry"]) : plan["dry"][k].t = "->"
    /\ \E k \in 1..Len(plan["dry"]) : plan["dry"][k].t = "Directory:"

\* C2: in a real run no directory rename is followed by a file rename.
C2_FilesBeforeDirectories ==
    IsSeriesRun =>
        \A i \in 1..Len(ops) : \A j \in 1..Len(ops) :
            (i < j /\ ops[i].kind = "dir") => ops[j].kind = "dir"

\* a season directory had a file renamed and was then renamed itself, after
\* a file of a later season directory was renamed too
C2_Witness ==
    /\ IsSeriesRun
    /\ \E i \in 1..Len(ops) : \E j \in 1..Len(ops) : \E k \in 1..Len(ops) :
        /\ i < j /\ j < k
        /\ ops[i].kind = "file" /\ ops[j].kind = "file" /\ ops[i].d # ops[j].d
        /\ ops[k].kind = "dir" /\ ops[k].src = ops[i].d /\ ops[k].result = "ok"

\* C3: a dry run and the real run after it, on the same tree and
\* configuration, report the same plan.
C3_SamePlan ==
    (IsSeriesRun /\ mode = "real" /\ pc \in {"done", "crashed"})
        => plan["real"] = plan["dry"]

\* the part of C3 that the code keeps: a real run that returns has reported
\* the plan of the dry run, and a run that is under way or has raised has
\* reported a prefix of it
PlanOfReturnedRun ==
    (IsSeriesRun /\ mode = "real") =>
        /\ Len(plan["real"]) <= Len(plan["dry"])
        /\ plan["real"] = SubSeq(plan["dry"], 1, Len(plan["real"]))
        /\ pc = "done" => plan["real"] = plan["dry"]

\* C4: in a real run a rename that fails (destination occupied, or denied by
\* the filesystem) is abandoned alone: its error does not escape
\* SeriesRenamer.run, which goes on with what is left.
C4_NoErrorEscapes ==
    (IsSeriesRun /\ mode = "real" /\ ops # << >> /\ ops[Len(ops)].result # "ok")
        => pc # "crashed"

\* the season directory d of the initial tree has a first matched file whose
\* name and the callback give no resolution, and the probe gave none: it
\* found no height, or it failed (with an exception the method catches or
\* with another one)
Undetermined(d) ==
    LET sn == get_season_from_directory(season_dir_patterns(d))
    IN  /\ fs0[d].kind = "dir"
        /\ d[1] # "."
        /\ sn.tag = "ok"
        /\ sn.val # None
        /\ LET scan == ScanFiles(d, SortedSeq(DOMAIN fs0[d].files), sn.val[1])
           IN  /\ scan.list # << >>
               /\ ~Truthy(FirstResolution(scan.list[1]))
               /\ env.probe # None
               /\ get_resolution_from_mkvinfo(env.probe[1]) \in
                        {Ok(None), Raise("PermissionError")}

\* no file of d has been renamed, and once the probe was asked about d the
\* season was reported as skipped
SeasonLeftAlone(d) ==
    /\ \A k \in 1..Len(ops) : ~(ops[k].kind = "file" /\ ops[k].d = d)
    /\ (pc \in {"files", "rename"} /\ d \in DOMAIN fs) => fs[d] = fs0[d]
    /\ ~(pc = "rename" /\ season_dirs[idx] = d)
    /\ LET p == plan[mode]
       IN  (\E k \in 1..Len(p) :
                p[k].t = "Getting resolution from mkvinfo" /\ p[k].d = d)
           => (\E k \in 1..Len(p) : p[k].t = "Skipping season" /\ p[k].d = d)

\* after a season was reported as skipped the run is at the next directory
SkipGoesOn ==
    LET p == plan[mode]
    IN  (p # << >> /\ p[Len(p)].t = "Skipping season") =>
            /\ pc = "files"
            /\ idx \in 2..(Len(season_dirs) + 1)
            /\ season_dirs[idx - 1] = p[Len(p)].d
            /\ Undetermined(p[Len(p)].d)

\* C5: a season whose resolution cannot be determined (first matched file
\* without resolution, no callback result, no probe result, a probe that
\* timed out, was missing or failed included) has none of its files renamed,
\* and the run goes on with the next season directory instead of aborting.
C5_UndeterminedSeasonSkipped ==
    IsSeriesRun =>
        /\ \A d \in DOMAIN fs0 : Undetermined(d) => SeasonLeftAlone(d)
        /\ SkipGoesOn

\* the part of C5 that the code keeps: when the probe completed without a
\* height or raised one of the three exceptions of line 296, the season is
\* left alone and the run goes on
SkippedWhenProbeCaught ==
    IsSeriesRun =>
        /\ \A d \in DOMAIN fs0 :
            (Undetermined(d) /\ get_resolution_from_mkvinfo(env.probe[1]) = Ok(None))
                => SeasonLeftAlone(d)
        /\ SkipGoesOn

\* in a real run a season with a file that carries its own resolution was
\* skipped because the probe timed out, and a file of a later season was
\* renamed after that
SkippedSeasonThenRename ==
    /\ IsSeriesRun
    /\ mode = "real"
    /\ env.probe # None
    /\ env.probe[1].kind = "TimeoutExpired"
    /\ \E d \in DOMAIN fs0 :
        /\ Undetermined(d)
        /\ FileBareRes \in DOMAIN fs0[d].files
        /\ \E k \in 1..Len(plan["real"]) :
            plan["real"][k].t = "Skipping season" /\ plan["real"][k].d = d
        /\ \E k \in 1..Len(ops) :
            ops[k].kind = "file" /\ ops[k].result = "ok" /\ StrLess(d, ops[k].d)

\* name ends with ".<digits>p.mkv"
HasResolutionLabel(name) ==
    /\ EndsWith(name, <<".", "m", "k", "v">>)
    /\ LET parts == SplitOn(SubSeq(name, 1, Len(name) - 4), ".")
           label == parts[Len(parts)]
       IN  /\ Len(label) >= 2
           /\ label[Len(label)] = "p"
           /\ \A k \in 1..(Len(label) - 1) : IsDigit(label[k])

\* C7: every filename the rename engine produces has a resolution component
\* <digits>p, whichever source supplied it.
C7_ResolutionLabel ==
    IsSeriesRun =>
        \A k \in 1..Len(plan[mode]) :
            plan[mode][k].t = "->" => HasResolutionLabel(plan[mode][k].b)

\* the part of C7 that the code keeps: with no callback, or a callback that
\* returns labels, every produced name has a <digits>p component
ResolutionLabelFromLabels ==
    (IsSeriesRun /\ env.extractor # "digits") =>
        \A k \in 1..Len(plan[mode]) :
            plan[mode][k].t = "->" => HasResolutionLabel(plan[mode][k].b)

====
